---------------------------- MODULE Spec2Model ----------------------------
(***************************************************************************)
(* Call store and cost accounting of the calling-agent dashboard           *)
(* (src/web_app.py): the `calls` table, make_call/dispatch_call,           *)
(* update_call, get_calls, get_costs, get_analytics, calculate_call_cost   *)
(* and the `transcripts` table with add_transcript_message.                *)
(*                                                                         *)
(* Units.  Python floats are replaced by exact integers:                   *)
(*   cost_livekit, cost_stt, cost_tts, cost_llm : micro-USD (round(x, 6))  *)
(*   total_cost_usd                             : 1e-4 USD  (round(x, 4))  *)
(*   total_cost_inr                             : 1e-2 INR  (round(x, 2))  *)
(*   duration_minutes                           : 1e-2 min  (round(x, 2))  *)
(* Unrounded intermediates are numerators over 60 in micro-USD (the        *)
(* division by 60.0 of line 128 is carried to the rounding).  Durations    *)
(* are drawn on a 10-second grid: there the exact value is never half-way  *)
(* between two roundings (that needs d = 6 mod 20 for the USD total and    *)
(* d = 1136 mod 2000 for the INR total), so round-to-nearest is what       *)
(* Python's round() returns.                                               *)
(*                                                                         *)
(* Atomicity.  Every handler opens its own sqlite3 connection, executes    *)
(* one statement and commits.  SQLite makes a statement of a transaction   *)
(* visible to other connections at the commit only and serialises the      *)
(* writers, so a handler is one step on the committed table `calls`; the   *)
(* steps of concurrent requests interleave in any order.                   *)
(* get_costs runs four SELECT statements outside a transaction: it is one  *)
(* step where a claim is about one of its statements, and one step a       *)
(* statement (GetCostsSelect) where a claim relates two of them.           *)
(***************************************************************************)
EXTENDS Integers, Sequences, FiniteSets, TLC

(* ------------------------------ bounds --------------------------------- *)
MaxCalls == 1
MaxUpdates == 2
MaxTime == 1
MaxDurSteps == 50
MaxAggCalls == 3
MaxTranscripts == 3

(* ------------------------- program constants --------------------------- *)
\* PRICING, per minute, in micro-USD
PRICING_livekit_sip == 10000
PRICING_deepgram_stt == 5900
PRICING_deepgram_tts == 27000
\* PRICING, per token, in 1e-8 USD
PRICING_groq_input == 59
PRICING_groq_output == 79
PRICING_avg_tokens_per_call == 2000
USD_TO_INR == 83

\* SQL NULL of the ended_at column
NULL == -1

(* ------------------------------ inputs --------------------------------- *)
Keys == {"status", "notes", "duration"}
TerminalStatuses == {"completed", "failed", "no_answer"}
StatusInputs == {"in_progress", "bogus"} \cup TerminalStatuses
NoteInputs == {"n"}
DurationInputs == {-60, 70}
CalcDurations == {10 * k : k \in 0..MaxDurSteps}
PhoneInputs ==
    { <<>>, <<"9", "1">>, <<"+", "1">>,
      <<"+", "9", "1", "9", "8", "7", "6", "5">> }

\* request.get_json() of update_call: `has` is the set of keys present
MkData(h, s, n, d) ==
    [has |-> h,
     status |-> IF "status" \in h THEN s ELSE "",
     notes |-> IF "notes" \in h THEN n ELSE "",
     duration |-> IF "duration" \in h THEN d ELSE 0]

UpdateData ==
    { MkData(h, s, n, d) :
        h \in SUBSET Keys, s \in StatusInputs, n \in NoteInputs,
        d \in DurationInputs }
DurationData == { MkData({"duration"}, "", "", d) : d \in CalcDurations }

\* the aggregation is read at tick 63, the second half of day 31; calls were
\* dispatched that day (63, 62), 7 days before (49, 48), 8 days before (47),
\* 30 days before (2) and 31 days before (1)
AggNow == 63
CreationTicks == {1, 2, 47, 48, 49, 62, 63}
AggDurations == {-60, 0, 70}
AggData == { MkData({"duration"}, "", "", d) : d \in AggDurations }

\* duration reports that arrive while a get_costs request is being served
RaceDurations == {0, 70, 120}
RaceData == { MkData({"duration"}, "", "", d) : d \in RaceDurations }

\* request.get_json() of add_transcript_message
SpeakerInputs == {"agent", "user"}
MessageInputs == {"", "hi"}

(* --------------------------- cost calculator --------------------------- *)
\* round-to-nearest (half to even) of n / m, m > 0
RoundDiv(n, m) ==
    LET q == n \div m
        r == n % m
    IN  IF 2 * r > m \/ (2 * r = m /\ q % 2 = 1) THEN q + 1 ELSE q

\* the total forgets the LLM estimate
calculate_call_cost_NoLLM(duration_seconds) ==
    LET cost_livekit == PRICING_livekit_sip * duration_seconds
        cost_stt == PRICING_deepgram_stt * duration_seconds
        cost_tts == PRICING_deepgram_tts * duration_seconds
        avg_tokens == PRICING_avg_tokens_per_call
        cost_llm == ((avg_tokens * PRICING_groq_input
                        + avg_tokens * PRICING_groq_output) * 60) \div 100
        total_usd == cost_livekit + cost_stt + cost_tts
        total_inr == total_usd * USD_TO_INR
    IN  [cost_livekit |-> RoundDiv(cost_livekit, 60),
         cost_stt |-> RoundDiv(cost_stt, 60),
         cost_tts |-> RoundDiv(cost_tts, 60),
         cost_llm |-> RoundDiv(cost_llm, 60),
         total_cost_usd |-> RoundDiv(total_usd, 6000),
         total_cost_inr |-> RoundDiv(total_inr, 600000),
         duration_minutes |-> RoundDiv(duration_seconds * 100, 60)]

\* the total is truncated to 4 decimals instead of rounded
calculate_call_cost_Truncated(duration_seconds) ==
    LET cost_livekit == PRICING_livekit_sip * duration_seconds
        cost_stt == PRICING_deepgram_stt * duration_seconds
        cost_tts == PRICING_deepgram_tts * duration_seconds
        avg_tokens == PRICING_avg_tokens_per_call
        cost_llm == ((avg_tokens * PRICING_groq_input
                        + avg_tokens * PRICING_groq_output) * 60) \div 100
        total_usd == cost_livekit + cost_stt + cost_tts + cost_llm
        total_inr == total_usd * USD_TO_INR
    IN  [cost_livekit |-> RoundDiv(cost_livekit, 60),
         cost_stt |-> RoundDiv(cost_stt, 60),
         cost_tts |-> RoundDiv(cost_tts, 60),
         cost_llm |-> RoundDiv(cost_llm, 60),
         total_cost_usd |-> total_usd \div 6000,
         total_cost_inr |-> RoundDiv(total_inr, 600000),
         duration_minutes |-> RoundDiv(duration_seconds * 100, 60)]

\* the rupee total is converted from the rounded dollar total
calculate_call_cost_InrFromRounded(duration_seconds) ==
    LET cost_livekit == PRICING_livekit_sip * duration_seconds
        cost_stt == PRICING_deepgram_stt * duration_seconds
        cost_tts == PRICING_deepgram_tts * duration_seconds
        avg_tokens == PRICING_avg_tokens_per_call
        cost_llm == ((avg_tokens * PRICING_groq_input
                        + avg_tokens * PRICING_groq_output) * 60) \div 100
        total_usd == cost_livekit + cost_stt + cost_tts + cost_llm
        total_inr == total_usd * USD_TO_INR
    IN  [cost_livekit |-> RoundDiv(cost_livekit, 60),
         cost_stt |-> RoundDiv(cost_stt, 60),
         cost_tts |-> RoundDiv(cost_tts, 60),
         cost_llm |-> RoundDiv(cost_llm, 60),
         total_cost_usd |-> RoundDiv(total_usd, 6000),
         total_cost_inr |-> RoundDiv(RoundDiv(total_usd, 6000) * USD_TO_INR, 100),
         duration_minutes |-> RoundDiv(duration_seconds * 100, 60)]

\* the LLM estimate is charged per minute instead of per call
calculate_call_cost_LLMPerMinute(duration_seconds) ==
    LET cost_livekit == PRICING_livekit_sip * duration_seconds
        cost_stt == PRICING_deepgram_stt * duration_seconds
        cost_tts == PRICING_deepgram_tts * duration_seconds
        avg_tokens == PRICING_avg_tokens_per_call
        cost_llm == ((avg_tokens * PRICING_groq_input
                        + avg_tokens * PRICING_groq_output) \div 100)
                        * duration_seconds
        total_usd == cost_livekit + cost_stt + cost_tts + cost_llm
        total_inr == total_usd * USD_TO_INR
    IN  [cost_livekit |-> RoundDiv(cost_livekit, 60),
         cost_stt |-> RoundDiv(cost_stt, 60),
         cost_tts |-> RoundDiv(cost_tts, 60),
         cost_llm |-> RoundDiv(cost_llm, 60),
         total_cost_usd |-> RoundDiv(total_usd, 6000),
         total_cost_inr |-> RoundDiv(total_inr, 600000),
         duration_minutes |-> RoundDiv(duration_seconds * 100, 60)]

\* the per-minute services bill every started minute
calculate_call_cost_WholeMinutes(duration_seconds) ==
    LET cost_livekit == PRICING_livekit_sip * 60 * ((duration_seconds + 59) \div 60)
        cost_stt == PRICING_deepgram_stt * 60 * ((duration_seconds + 59) \div 60)
        cost_tts == PRICING_deepgram_tts * 60 * ((duration_seconds + 59) \div 60)
        avg_tokens == PRICING_avg_tokens_per_call
        cost_llm == ((avg_tokens * PRICING_groq_input
                        + avg_tokens * PRICING_groq_output) * 60) \div 100
        total_usd == cost_livekit + cost_stt + cost_tts + cost_llm
        total_inr == total_usd * USD_TO_INR
    IN  [cost_livekit |-> RoundDiv(cost_livekit, 60),
         cost_stt |-> RoundDiv(cost_stt, 60),
         cost_tts |-> RoundDiv(cost_tts, 60),
         cost_llm |-> RoundDiv(cost_llm, 60),
         total_cost_usd |-> RoundDiv(total_usd, 6000),
         total_cost_inr |-> RoundDiv(total_inr, 600000),
         duration_minutes |-> RoundDiv(duration_seconds * 100, 60)]

\* the per-minute services are billed at half price after five minutes
calculate_call_cost_VolumeDiscount(duration_seconds) ==
    LET rate == IF duration_seconds > 300 THEN 1 ELSE 2
        cost_livekit == (PRICING_livekit_sip * duration_seconds * rate) \div 2
        cost_stt == (PRICING_deepgram_stt * duration_seconds * rate) \div 2
        cost_tts == (PRICING_deepgram_tts * duration_seconds * rate) \div 2
        avg_tokens == PRICING_avg_tokens_per_call
        cost_llm == ((avg_tokens * PRICING_groq_input
                        + avg_tokens * PRICING_groq_output) * 60) \div 100
        total_usd == cost_livekit + cost_stt + cost_tts + cost_llm
        total_inr == total_usd * USD_TO_INR
    IN  [cost_livekit |-> RoundDiv(cost_livekit, 60),
         cost_stt |-> RoundDiv(cost_stt, 60),
         cost_tts |-> RoundDiv(cost_tts, 60),
         cost_llm |-> RoundDiv(cost_llm, 60),
         total_cost_usd |-> RoundDiv(total_usd, 6000),
         total_cost_inr |-> RoundDiv(total_inr, 600000),
         duration_minutes |-> RoundDiv(duration_seconds * 100, 60)]

calculate_call_cost(duration_seconds) ==
    LET cost_livekit == PRICING_livekit_sip * duration_seconds
        cost_stt == PRICING_deepgram_stt * duration_seconds
        cost_tts == PRICING_deepgram_tts * duration_seconds
        avg_tokens == PRICING_avg_tokens_per_call
        \* 1e-8 USD -> micro-USD over 60
        cost_llm == ((avg_tokens * PRICING_groq_input
                        + avg_tokens * PRICING_groq_output) * 60) \div 100
        total_usd == cost_livekit + cost_stt + cost_tts + cost_llm
        total_inr == total_usd * USD_TO_INR
    IN  [cost_livekit |-> RoundDiv(cost_livekit, 60),
         cost_stt |-> RoundDiv(cost_stt, 60),
         cost_tts |-> RoundDiv(cost_tts, 60),
         cost_llm |-> RoundDiv(cost_llm, 60),
         total_cost_usd |-> RoundDiv(total_usd, 6000),
         total_cost_inr |-> RoundDiv(total_inr, 600000),
         duration_minutes |-> RoundDiv(duration_seconds * 100, 60)]

(* ------------------------------- state --------------------------------- *)
VARIABLES
    calls,      \* committed rows of table calls; the id is the index
    now,        \* CURRENT_TIMESTAMP
    nupdates,   \* update_call requests served
    reports,    \* history, per id: applied updates that carried a duration
    terminated, \* history: ids to which an update carrying a terminal status was applied
    transcripts,\* committed rows of table transcripts
    inflight    \* results of the SELECTs a get_costs request has run so far

vars == <<calls, now, nupdates, reports, terminated, transcripts, inflight>>

\* the INSERT leaves the status to the column default
InsertRow_DefaultStatus(ts) ==
    [status |-> "initiated", duration |-> 0, notes |-> "",
     created_at |-> ts, ended_at |-> NULL,
     cost_livekit |-> 0, cost_stt |-> 0, cost_tts |-> 0, cost_llm |-> 0,
     total_cost_usd |-> 0, total_cost_inr |-> 0]

\* INSERT INTO calls (phone_number, room_name, dispatch_id, status)
\* VALUES (?, ?, ?, 'dialing') with the column defaults of init_db
InsertRow(ts) ==
    [status |-> "dialing", duration |-> 0, notes |-> "",
     created_at |-> ts, ended_at |-> NULL,
     cost_livekit |-> 0, cost_stt |-> 0, cost_tts |-> 0, cost_llm |-> 0,
     total_cost_usd |-> 0, total_cost_inr |-> 0]

SetCosts(row, c) ==
    [row EXCEPT !.cost_livekit = c.cost_livekit,
                !.cost_stt = c.cost_stt,
                !.cost_tts = c.cost_tts,
                !.cost_llm = c.cost_llm,
                !.total_cost_usd = c.total_cost_usd,
                !.total_cost_inr = c.total_cost_inr]

\* the duration is written, the six cost columns are left out of the SET list
UpdateRow_DurationOnly(row, data, ts) ==
    LET r1 == IF "status" \in data.has
              THEN [row EXCEPT !.status = data.status] ELSE row
        r2 == IF "notes" \in data.has
              THEN [r1 EXCEPT !.notes = data.notes] ELSE r1
        r3 == IF "duration" \in data.has
              THEN [r2 EXCEPT !.duration = data.duration] ELSE r2
    IN  IF "status" \in data.has /\ data.status \in TerminalStatuses
        THEN [r3 EXCEPT !.ended_at = ts] ELSE r3

\* the costs are recomputed from the stored duration on every update
UpdateRow_AlwaysCosts(row, data, ts) ==
    LET r1 == IF "status" \in data.has
              THEN [row EXCEPT !.status = data.status] ELSE row
        r2 == IF "notes" \in data.has
              THEN [r1 EXCEPT !.notes = data.notes] ELSE r1
        r3 == IF "duration" \in data.has
              THEN [r2 EXCEPT !.duration = data.duration] ELSE r2
        r4 == SetCosts(r3, calculate_call_cost(r3.duration))
    IN  IF "status" \in data.has /\ data.status \in TerminalStatuses
        THEN [r4 EXCEPT !.ended_at = ts] ELSE r4

\* the end time is stamped for 'completed' only
UpdateRow_CompletedOnly(row, data, ts) ==
    LET r1 == IF "status" \in data.has
              THEN [row EXCEPT !.status = data.status] ELSE row
        r2 == IF "notes" \in data.has
              THEN [r1 EXCEPT !.notes = data.notes] ELSE r1
        r3 == IF "duration" \in data.has
              THEN SetCosts([r2 EXCEPT !.duration = data.duration],
                            calculate_call_cost(data.duration))
              ELSE r2
    IN  IF "status" \in data.has /\ data.status = "completed"
        THEN [r3 EXCEPT !.ended_at = ts] ELSE r3

\* `elif`: the end time is stamped only when no duration came along
UpdateRow_ElseIf(row, data, ts) ==
    LET r1 == IF "status" \in data.has
              THEN [row EXCEPT !.status = data.status] ELSE row
        r2 == IF "notes" \in data.has
              THEN [r1 EXCEPT !.notes = data.notes] ELSE r1
    IN  IF "duration" \in data.has
        THEN SetCosts([r2 EXCEPT !.duration = data.duration],
                      calculate_call_cost(data.duration))
        ELSE IF "status" \in data.has /\ data.status \in TerminalStatuses
        THEN [r2 EXCEPT !.ended_at = ts] ELSE r2

\* the computed costs are added to the stored ones
UpdateRow_Accumulate(row, data, ts) ==
    LET r1 == IF "status" \in data.has
              THEN [row EXCEPT !.status = data.status] ELSE row
        r2 == IF "notes" \in data.has
              THEN [r1 EXCEPT !.notes = data.notes] ELSE r1
        c == calculate_call_cost(data.duration)
        r3 == IF "duration" \in data.has
              THEN [r2 EXCEPT !.duration = data.duration,
                              !.cost_livekit = @ + c.cost_livekit,
                              !.cost_stt = @ + c.cost_stt,
                              !.cost_tts = @ + c.cost_tts,
                              !.cost_llm = @ + c.cost_llm,
                              !.total_cost_usd = @ + c.total_cost_usd,
                              !.total_cost_inr = @ + c.total_cost_inr]
              ELSE r2
    IN  IF "status" \in data.has /\ data.status \in TerminalStatuses
        THEN [r3 EXCEPT !.ended_at = ts] ELSE r3

\* UPDATE calls SET <the list update_call builds> applied to one row
UpdateRow(row, data, ts) ==
    LET r1 == IF "status" \in data.has
              THEN [row EXCEPT !.status = data.status] ELSE row
        r2 == IF "notes" \in data.has
              THEN [r1 EXCEPT !.notes = data.notes] ELSE r1
        r3 == IF "duration" \in data.has
              THEN SetCosts([r2 EXCEPT !.duration = data.duration],
                            calculate_call_cost(data.duration))
              ELSE r2
    IN  IF "status" \in data.has /\ data.status \in TerminalStatuses
        THEN [r3 EXCEPT !.ended_at = ts] ELSE r3

Init ==
    /\ calls = <<>>
    /\ now = 0
    /\ nupdates = 0
    /\ reports = <<>>
    /\ terminated = {}
    /\ transcripts = <<>>
    /\ inflight = <<>>

(* ------------------------------ make_call ------------------------------ *)
PhoneValid(phone_number) ==
    /\ Len(phone_number) # 0
    /\ phone_number[1] = "+"
    /\ Len(phone_number) >= 8

\* the record is inserted before the agent is dispatched
MakeCall_InsertFirst(phone_number, creds, dispatched) ==
    IF PhoneValid(phone_number) /\ creds
    THEN /\ Len(calls) < MaxCalls
         /\ calls' = Append(calls, InsertRow(now))
         /\ reports' = Append(reports, 0)
         /\ UNCHANGED <<now, nupdates, terminated, transcripts, inflight>>
    ELSE UNCHANGED vars

\* make_call with dispatch_call: `creds` is whether the LiveKit credentials
\* are configured, `dispatched` whether create_dispatch returned.  The three
\* early answers (400, 500, success False) leave the database alone.
MakeCall(phone_number, creds, dispatched) ==
    IF PhoneValid(phone_number) /\ creds /\ dispatched
    THEN /\ Len(calls) < MaxCalls
         /\ calls' = Append(calls, InsertRow(now))
         /\ reports' = Append(reports, 0)
         /\ UNCHANGED <<now, nupdates, terminated, transcripts, inflight>>
    ELSE UNCHANGED vars

(* ----------------------------- update_call ----------------------------- *)
\* the UPDATE statement has lost its WHERE clause
UpdateCall_NoWhere(call_id, data) ==
    /\ nupdates < MaxUpdates
    /\ nupdates' = nupdates + 1
    /\ LET hit == data.has # {} /\ call_id \in 1..Len(calls)
       IN  /\ calls' = IF hit
                       THEN [i \in DOMAIN calls |-> UpdateRow(calls[i], data, now)]
                       ELSE calls
           /\ reports' = IF hit /\ "duration" \in data.has
                         THEN [reports EXCEPT ![call_id] = @ + 1]
                         ELSE reports
           /\ terminated' = IF /\ hit
                               /\ "status" \in data.has
                               /\ data.status \in {"completed", "failed", "no_answer"}
                            THEN terminated \cup {call_id} ELSE terminated
    /\ UNCHANGED <<now, transcripts, inflight>>

\* an update of a call_id that matches no row inserts the row
UpdateCall_Upsert(call_id, data) ==
    /\ nupdates < MaxUpdates
    /\ nupdates' = nupdates + 1
    /\ LET hit == data.has # {} /\ call_id \in 1..Len(calls)
       IN  /\ calls' = IF hit
                       THEN [calls EXCEPT ![call_id] = UpdateRow(@, data, now)]
                       ELSE IF data.has # {}
                            THEN Append(calls, UpdateRow(InsertRow(now), data, now))
                            ELSE calls
           /\ reports' = IF hit /\ "duration" \in data.has
                         THEN [reports EXCEPT ![call_id] = @ + 1]
                         ELSE IF data.has # {} /\ ~hit
                              THEN Append(reports, 0) ELSE reports
           /\ terminated' = IF /\ hit
                               /\ "status" \in data.has
                               /\ data.status \in {"completed", "failed", "no_answer"}
                            THEN terminated \cup {call_id} ELSE terminated
    /\ UNCHANGED <<now, transcripts, inflight>>

UpdateCall(call_id, data) ==
    /\ nupdates < MaxUpdates
    /\ nupdates' = nupdates + 1
    /\ LET hit == data.has # {} /\ call_id \in 1..Len(calls)
       IN  /\ calls' = IF hit
                       THEN [calls EXCEPT ![call_id] = UpdateRow(@, data, now)]
                       ELSE calls
           /\ reports' = IF hit /\ "duration" \in data.has
                         THEN [reports EXCEPT ![call_id] = @ + 1]
                         ELSE reports
           /\ terminated' = IF /\ hit
                               /\ "status" \in data.has
                               /\ data.status \in {"completed", "failed", "no_answer"}
                            THEN terminated \cup {call_id} ELSE terminated
    /\ UNCHANGED <<now, transcripts, inflight>>

\* the answer of update_call to a request with a JSON object as its body:
\* the handler reaches its last line whether or not the UPDATE matched a row
update_call_response(call_id, data) ==
    [success |-> TRUE, message |-> "Call updated"]

(* --------------------------- the price table -------------------------- *)
\* PRICING as the dict the calculator subscripts
PriceKeys ==
    {"livekit_sip", "deepgram_stt", "deepgram_tts",
     "groq_input", "groq_output", "avg_tokens_per_call"}

PRICING ==
    [livekit_sip |-> PRICING_livekit_sip,
     deepgram_stt |-> PRICING_deepgram_stt,
     deepgram_tts |-> PRICING_deepgram_tts,
     groq_input |-> PRICING_groq_input,
     groq_output |-> PRICING_groq_output,
     avg_tokens_per_call |-> PRICING_avg_tokens_per_call]

\* the configured table with some entries set to 0 and some entries removed
PriceTables ==
    { [k \in present |-> IF k \in zero THEN 0 ELSE PRICING[k]] :
        present \in SUBSET PriceKeys, zero \in SUBSET PriceKeys }

PricedDurations == {70, 120}
PricedData == { MkData({"duration"}, "", "", d) : d \in PricedDurations }

\* PRICING[key] raises KeyError for a key the dict does not hold; the
\* calculator subscripts all six keys on every call
RaisesKeyError(pricing) == ~(PriceKeys \subseteq DOMAIN pricing)

\* calculate_call_cost reading the table `pricing`, all keys present
calculate_call_cost_priced(pricing, duration_seconds) ==
    LET cost_livekit == pricing["livekit_sip"] * duration_seconds
        cost_stt == pricing["deepgram_stt"] * duration_seconds
        cost_tts == pricing["deepgram_tts"] * duration_seconds
        avg_tokens == pricing["avg_tokens_per_call"]
        cost_llm == ((avg_tokens * pricing["groq_input"]
                        + avg_tokens * pricing["groq_output"]) * 60) \div 100
        total_usd == cost_livekit + cost_stt + cost_tts + cost_llm
        total_inr == total_usd * USD_TO_INR
    IN  [cost_livekit |-> RoundDiv(cost_livekit, 60),
         cost_stt |-> RoundDiv(cost_stt, 60),
         cost_tts |-> RoundDiv(cost_tts, 60),
         cost_llm |-> RoundDiv(cost_llm, 60),
         total_cost_usd |-> RoundDiv(total_usd, 6000),
         total_cost_inr |-> RoundDiv(total_inr, 600000),
         duration_minutes |-> RoundDiv(duration_seconds * 100, 60)]

\* update_call of a deployment whose PRICING is `pricing`: the KeyError of
\* the calculator is caught by the handler's except clause, which answers
\* 500 before the UPDATE statement is reached
UpdateCallPriced(pricing, call_id, data) ==
    /\ nupdates < MaxUpdates
    /\ nupdates' = nupdates + 1
    /\ IF "duration" \in data.has /\ RaisesKeyError(pricing)
       THEN UNCHANGED <<calls, reports, terminated>>
       ELSE LET hit == data.has # {} /\ call_id \in 1..Len(calls)
                row == UpdateRow(calls[call_id], data, now)
            IN  /\ calls' =
                     IF ~hit THEN calls
                     ELSE [calls EXCEPT ![call_id] =
                             IF "duration" \in data.has
                             THEN SetCosts(row,
                                    calculate_call_cost_priced(pricing, data.duration))
                             ELSE row]
                /\ reports' = IF hit /\ "duration" \in data.has
                              THEN [reports EXCEPT ![call_id] = @ + 1]
                              ELSE reports
                /\ UNCHANGED terminated
    /\ UNCHANGED <<now, transcripts, inflight>>

(* ----------------------------- transcripts ----------------------------- *)
\* add_transcript_message: an empty message is answered 400; otherwise the
\* row is inserted.  get_db does not switch foreign_keys on, so SQLite does
\* not look the call_id up in calls.
AddTranscriptMessage(call_id, speaker, message) ==
    IF message = ""
    THEN UNCHANGED vars
    ELSE /\ Len(transcripts) < MaxTranscripts
         /\ transcripts' = Append(transcripts,
                                  [call_id |-> call_id, speaker |-> speaker,
                                   message |-> message, timestamp |-> now])
         /\ UNCHANGED <<calls, now, nupdates, reports, terminated, inflight>>

(* ------------------------------ readers -------------------------------- *)
\* get_calls: SELECT ... FROM calls ORDER BY created_at DESC LIMIT ?
GetCalls == UNCHANGED vars

(* ----------------------------- aggregation ---------------------------- *)
(* A timestamp is a tick count, two ticks to a calendar day.  SQLite holds *)
(* it as the text 'YYYY-MM-DD HH:MM:SS' and DATE(...) gives the text       *)
(* 'YYYY-MM-DD'; texts are compared character by character, a proper       *)
(* prefix being the smaller.  TimestampText and DateText keep the fields   *)
(* of the two formats, in their order.                                     *)
DATE(ts) == ts \div 2
TimestampText(ts) == <<ts \div 2, ts % 2>>
DateText(day) == <<day>>

\* a >= b in the text order of SQLite
TextGE(a, b) ==
    LET n == IF Len(a) < Len(b) THEN Len(a) ELSE Len(b)
        differ == {k \in 1..n : a[k] # b[k]}
    IN  IF differ = {}
        THEN Len(a) >= Len(b)
        ELSE LET k == CHOOSE x \in differ : \A y \in differ : x <= y
             IN  a[k] > b[k]

\* WHERE DATE(created_at) = DATE('now')
WhereToday(rows, ts) ==
    {i \in DOMAIN rows : DATE(rows[i].created_at) = DATE(ts)}

\* the filter compares the creation day only, and strictly
WhereSince_DateAfter(rows, ts, days) ==
    {i \in DOMAIN rows : DATE(rows[i].created_at) > DATE(ts) - days}

\* WHERE created_at >= DATE('now', '-N days')
WhereSince(rows, ts, days) ==
    {i \in DOMAIN rows :
        TextGE(TimestampText(rows[i].created_at), DateText(DATE(ts) - days))}

\* the sum adds the LLM estimate column instead of the column asked for
SUM_WrongColumn(rows, col, ids) ==
    LET f[k \in 0..Len(rows)] ==
            IF k = 0 THEN 0
            ELSE f[k - 1] + (IF k \in ids THEN rows[k].cost_llm ELSE 0)
    IN  f[Len(rows)]

\* COALESCE(SUM(col), 0) over the rows selected by the WHERE clause
SUM(rows, col, ids) ==
    LET f[k \in 0..Len(rows)] ==
            IF k = 0 THEN 0
            ELSE f[k - 1] + (IF k \in ids THEN rows[k][col] ELSE 0)
    IN  f[Len(rows)]

\* SELECT SUM(total_cost_usd), SUM(total_cost_inr), COUNT(*) ... WHERE ...
\* with the round(..., 4) and round(..., 2) of the response: the sums are
\* whole numbers of 1e-4 USD and of 1e-2 INR
WindowCosts(rows, ids) ==
    [usd |-> SUM(rows, "total_cost_usd", ids),
     inr |-> SUM(rows, "total_cost_inr", ids),
     calls |-> Cardinality(ids)]

\* SUM over no row is NULL and round(None, 4) raises: the handler answers 500
get_costs_NoCoalesce(rows, ts) ==
    LET all == DOMAIN rows
        total_duration == SUM(rows, "duration", all)
        total_usd == SUM(rows, "total_cost_usd", all)
        total_minutes == IF total_duration > 0 THEN total_duration ELSE 0
        per_minute == IF total_minutes > 0 THEN total_usd * 60 ELSE 0
        minutes == IF total_minutes > 0 THEN total_minutes ELSE 1
    IN  [success |-> rows # <<>>,
         breakdown |->
            [livekit_sip |-> RoundDiv(SUM(rows, "cost_livekit", all), 100),
             deepgram_stt |-> RoundDiv(SUM(rows, "cost_stt", all), 100),
             deepgram_tts |-> RoundDiv(SUM(rows, "cost_tts", all), 100),
             groq_llm |-> RoundDiv(SUM(rows, "cost_llm", all), 100)],
         totals |->
            [usd |-> total_usd,
             inr |-> SUM(rows, "total_cost_inr", all),
             minutes |-> RoundDiv(total_minutes * 100, 60),
             cost_per_minute_usd |-> RoundDiv(per_minute, minutes),
             cost_per_minute_inr |->
                RoundDiv(per_minute * USD_TO_INR, minutes * 100)],
         today |-> WindowCosts(rows, WhereToday(rows, ts)),
         week |-> WindowCosts(rows, WhereSince(rows, ts, 7)),
         month |-> WindowCosts(rows, WhereSince(rows, ts, 30))]

(* get_costs on the table `rows` at time `ts`.  The breakdown is in 1e-4   *)
(* USD, totals.minutes in 1e-2 min, the costs per minute in 1e-4 USD and   *)
(* 1e-2 INR a minute.  total_minutes is kept as seconds (the numerator     *)
(* over 60) and cost_per_minute as the fraction per_minute / minutes.      *)
get_costs(rows, ts) ==
    LET all == DOMAIN rows
        total_duration == SUM(rows, "duration", all)
        total_usd == SUM(rows, "total_cost_usd", all)
        total_minutes == IF total_duration > 0 THEN total_duration ELSE 0
        per_minute == IF total_minutes > 0 THEN total_usd * 60 ELSE 0
        minutes == IF total_minutes > 0 THEN total_minutes ELSE 1
    IN  [success |-> TRUE,
         breakdown |->
            [livekit_sip |-> RoundDiv(SUM(rows, "cost_livekit", all), 100),
             deepgram_stt |-> RoundDiv(SUM(rows, "cost_stt", all), 100),
             deepgram_tts |-> RoundDiv(SUM(rows, "cost_tts", all), 100),
             groq_llm |-> RoundDiv(SUM(rows, "cost_llm", all), 100)],
         totals |->
            [usd |-> total_usd,
             inr |-> SUM(rows, "total_cost_inr", all),
             minutes |-> RoundDiv(total_minutes * 100, 60),
             cost_per_minute_usd |-> RoundDiv(per_minute, minutes),
             cost_per_minute_inr |->
                RoundDiv(per_minute * USD_TO_INR, minutes * 100)],
         today |-> WindowCosts(rows, WhereToday(rows, ts)),
         week |-> WindowCosts(rows, WhereSince(rows, ts, 7)),
         month |-> WindowCosts(rows, WhereSince(rows, ts, 30))]

\* get_analytics on the table `rows` at time `ts` (the contacts count, the
\* pricing table and the rate of the response are left out)
get_analytics(rows, ts) ==
    LET all == DOMAIN rows
        today == WhereToday(rows, ts)
        week == WhereSince(rows, ts, 7)
        month == WhereSince(rows, ts, 30)
    IN  [success |-> TRUE,
         total_calls |-> Cardinality(all),
         today_calls |-> Cardinality(today),
         week_calls |-> Cardinality(week),
         month_calls |-> Cardinality(month),
         status_counts |->
            [s \in {rows[i].status : i \in all} |->
                Cardinality({i \in all : rows[i].status = s})],
         daily_calls |->
            [d \in {DATE(rows[i].created_at) : i \in week} |->
                Cardinality({i \in week : DATE(rows[i].created_at) = d})],
         today_cost_usd |-> SUM(rows, "total_cost_usd", today),
         today_cost_inr |-> SUM(rows, "total_cost_inr", today),
         week_cost_usd |-> SUM(rows, "total_cost_usd", week),
         week_cost_inr |-> SUM(rows, "total_cost_inr", week),
         month_cost_usd |-> SUM(rows, "total_cost_usd", month),
         month_cost_inr |-> SUM(rows, "total_cost_inr", month),
         total_cost_usd |-> SUM(rows, "total_cost_usd", all),
         total_cost_inr |-> SUM(rows, "total_cost_inr", all)]

\* the handler writes the recomputed costs back into the rows it read
GetCosts_Backfill ==
    /\ calls' = [i \in DOMAIN calls |->
                    SetCosts(calls[i], calculate_call_cost(calls[i].duration))]
    /\ UNCHANGED <<now, nupdates, reports, terminated, transcripts, inflight>>

\* get_costs and get_analytics run SELECT statements only
GetCosts == UNCHANGED vars

GetAnalytics == UNCHANGED vars

(* get_costs statement by statement.  The handler runs its four SELECTs on  *)
(* one connection without opening a transaction, so each of them reads the *)
(* table as committed when it runs, and requests served by other threads   *)
(* commit in between.  GetCosts above is the request that meets no such    *)
(* commit.                                                                 *)
SelectTotals(rows) ==
    [total_livekit |-> SUM(rows, "cost_livekit", DOMAIN rows),
     total_stt |-> SUM(rows, "cost_stt", DOMAIN rows),
     total_tts |-> SUM(rows, "cost_tts", DOMAIN rows),
     total_llm |-> SUM(rows, "cost_llm", DOMAIN rows),
     total_usd |-> SUM(rows, "total_cost_usd", DOMAIN rows),
     total_inr |-> SUM(rows, "total_cost_inr", DOMAIN rows),
     total_duration |-> SUM(rows, "duration", DOMAIN rows)]

\* the next SELECT of the request: totals, today, week, month
GetCostsSelect ==
    /\ Len(inflight) < 4
    /\ inflight' =
          Append(inflight,
                 CASE Len(inflight) = 0 -> SelectTotals(calls)
                   [] Len(inflight) = 1 -> WindowCosts(calls, WhereToday(calls, now))
                   [] Len(inflight) = 2 -> WindowCosts(calls, WhereSince(calls, now, 7))
                   [] OTHER -> WindowCosts(calls, WhereSince(calls, now, 30)))
    /\ UNCHANGED <<calls, now, nupdates, reports, terminated, transcripts>>

\* the totals and the windows of the response, from the four results
costs_response(selects) ==
    [success |-> TRUE,
     totals |-> [usd |-> selects[1].total_usd, inr |-> selects[1].total_inr],
     today |-> selects[2],
     week |-> selects[3],
     month |-> selects[4]]

\* the response is sent and the connection closed
GetCostsReturn ==
    /\ Len(inflight) = 4
    /\ inflight' = <<>>
    /\ UNCHANGED <<calls, now, nupdates, reports, terminated, transcripts>>

\* the clock of CURRENT_TIMESTAMP advances
Tick ==
    /\ now < MaxTime
    /\ now' = now + 1
    /\ UNCHANGED <<calls, nupdates, reports, terminated, transcripts, inflight>>

Next ==
    \/ \E p \in PhoneInputs, c \in BOOLEAN, d \in BOOLEAN : MakeCall(p, c, d)
    \/ \E id \in 1..(Len(calls) + 1), data \in UpdateData : UpdateCall(id, data)
    \/ GetCalls
    \/ GetCosts
    \/ GetAnalytics
    \/ Tick

Spec == Init /\ [][Next]_vars

\* the cost calculator on its own: one dispatched call, then duration reports
InitCalc ==
    /\ calls = <<InsertRow(0)>>
    /\ now = 0
    /\ nupdates = 0
    /\ reports = <<0>>
    /\ terminated = {}
    /\ transcripts = <<>>
    /\ inflight = <<>>

NextCalc == \E data \in DurationData : UpdateCall(1, data)

SpecCalc == InitCalc /\ [][NextCalc]_vars

\* the aggregation handlers on a store of calls dispatched over the last
\* month, in the order of their dispatch, none of them reported yet
InitAgg ==
    /\ now = AggNow
    /\ \E n \in 0..MaxAggCalls :
         \E created \in [1..n -> CreationTicks] :
            /\ \A i \in 1..n, j \in 1..n : i <= j => created[i] <= created[j]
            /\ calls = [i \in 1..n |-> InsertRow(created[i])]
            /\ reports = [i \in 1..n |-> 0]
    /\ nupdates = 0
    /\ terminated = {}
    /\ transcripts = <<>>
    /\ inflight = <<>>

NextAgg ==
    \/ \E id \in 1..Len(calls), data \in AggData : UpdateCall(id, data)
    \/ GetCalls
    \/ GetCosts
    \/ GetAnalytics

SpecAgg == InitAgg /\ [][NextAgg]_vars

\* dispatches and transcript messages
NextTranscript ==
    \/ \E p \in PhoneInputs, c \in BOOLEAN, d \in BOOLEAN : MakeCall(p, c, d)
    \/ \E id \in 1..(Len(calls) + 1), speaker \in SpeakerInputs,
          message \in MessageInputs : AddTranscriptMessage(id, speaker, message)
    \/ Tick

SpecTranscript == Init /\ [][NextTranscript]_vars

\* a get_costs request served while durations are reported on a call
NextRace ==
    \/ \E data \in RaceData : UpdateCall(1, data)
    \/ GetCostsSelect
    \/ GetCostsReturn

SpecRace == InitCalc /\ [][NextRace]_vars

\* update_call on a store of two dispatched calls
InitUpd ==
    /\ calls = <<InsertRow(0), InsertRow(0)>>
    /\ now = 0
    /\ nupdates = 0
    /\ reports = <<0, 0>>
    /\ terminated = {}
    /\ transcripts = <<>>
    /\ inflight = <<>>

NextUpd ==
    \E id \in 1..(Len(calls) + 1), data \in UpdateData : UpdateCall(id, data)

SpecUpd == InitUpd /\ [][NextUpd]_vars

\* duration reports under partially configured price tables
NextPricing ==
    \E pricing \in PriceTables, data \in PricedData :
        UpdateCallPriced(pricing, 1, data)

SpecPricing == InitCalc /\ [][NextPricing]_vars

(* ======================= properties of the call store ================== *)
Ids == 1..Len(calls)

\* the six cost columns of a row, and of a calculate_call_cost result
CostFields(r) ==
    <<r.cost_livekit, r.cost_stt, r.cost_tts, r.cost_llm,
      r.total_cost_usd, r.total_cost_inr>>
DurationAndCosts(r) == <<r.duration, CostFields(r)>>

(* C1: a call record for which a duration has been reported holds the six  *)
(* cost fields calculate_call_cost gives for its stored duration, in every *)
(* state a concurrent reader can observe.                                  *)
CostsMatchDuration ==
    \A i \in Ids :
        reports[i] > 0 =>
            CostFields(calls[i]) = CostFields(calculate_call_cost(calls[i].duration))

\* a duration was reported while another update_call was served as well
CostsMatchDurationWitness ==
    \E i \in Ids :
        /\ reports[i] > 0
        /\ nupdates >= 2
        /\ calls[i].duration # 0
        /\ calls[i].total_cost_usd # 0

(* C2: once the end timestamp of a record is set, a further terminal-status *)
(* update leaves it at its value (it is set only if null).                  *)
EndedAtSetOnlyIfNull ==
    [][\A i \in Ids :
          calls[i].ended_at # NULL => calls'[i].ended_at = calls[i].ended_at]_vars

(* C3, as claimed: once a duration has been reported for a record, its     *)
(* duration and cost fields never change again.                            *)
DurationCostsImmutable ==
    [][\A i \in Ids :
          reports[i] > 0 => DurationAndCosts(calls'[i]) = DurationAndCosts(calls[i])]_vars

(* C3, amended: the duration and cost fields of a record change only in an *)
(* update_call that carries a duration d for it, and then hold d and       *)
(* calculate_call_cost(d); every such update rewrites them.                *)
DurationCostsChangeOnlyByReport ==
    [][\A i \in Ids :
          DurationAndCosts(calls'[i]) # DurationAndCosts(calls[i]) =>
              /\ nupdates' = nupdates + 1
              /\ reports'[i] = reports[i] + 1
              /\ \E d \in DurationInputs :
                    /\ calls'[i].duration = d
                    /\ CostFields(calls'[i]) = CostFields(calculate_call_cost(d))]_vars

\* a record whose duration was reported twice and holds the second report
DurationReportedTwice ==
    \E i \in Ids : reports[i] >= 2 /\ calls[i].duration # 0

(* C4: no call record stores a negative duration or a negative cost field. *)
NoNegativeDurationOrCost ==
    \A i \in Ids :
        /\ calls[i].duration >= 0
        /\ \A k \in 1..6 : CostFields(calls[i])[k] >= 0

(* C5: the status of every call record is one of initiated, dialing,       *)
(* in-progress (in_progress in the state machine), completed, failed,      *)
(* no_answer.                                                              *)
StatusIsKnown ==
    \A i \in Ids :
        calls[i].status \in
            {"initiated", "dialing", "in-progress", "in_progress",
             "completed", "failed", "no_answer"}

(* C6, as claimed: a record's status starts at initiated and changes only  *)
(* forward along initiated -> dialing -> in_progress -> terminal.          *)
StatusRank(s) ==
    CASE s = "initiated" -> 0
      [] s = "dialing" -> 1
      [] s \in {"in_progress", "in-progress"} -> 2
      [] s \in {"completed", "failed", "no_answer"} -> 3
      [] OTHER -> 4

StatusOnlyForward ==
    [][\A i \in 1..Len(calls') :
          IF i > Len(calls)
          THEN calls'[i].status = "initiated"
          ELSE \/ calls'[i].status = calls[i].status
               \/ /\ StatusRank(calls'[i].status) <= 3
                  /\ StatusRank(calls'[i].status) > StatusRank(calls[i].status)]_vars

(* C6, amended: a record's status starts at dialing and changes only in an *)
(* update_call, to a status such a request carries; no order is enforced.  *)
StatusStartsDialingChangesByUpdate ==
    [][\A i \in 1..Len(calls') :
          IF i > Len(calls)
          THEN calls'[i].status = "dialing"
          ELSE calls'[i].status # calls[i].status =>
                  /\ nupdates' = nupdates + 1
                  /\ calls'[i].status \in StatusInputs]_vars

\* a record that left a terminal status again
StatusWentBackward ==
    \E i \in Ids : i \in terminated /\ calls[i].status = "in_progress"

(* C7: the end timestamp of a record is non-null exactly when an update    *)
(* carrying a terminal status has been applied to it, and a record whose   *)
(* status is terminal has it set.                                          *)
EndedAtIffTerminalApplied ==
    \A i \in Ids :
        /\ calls[i].ended_at # NULL <=> i \in terminated
        /\ calls[i].status \in {"completed", "failed", "no_answer"} =>
              calls[i].ended_at # NULL

\* a record ended by no_answer after the clock advanced
EndedAtIffTerminalAppliedWitness ==
    \E i \in Ids :
        /\ i \in terminated
        /\ calls[i].status = "no_answer"
        /\ calls[i].ended_at = now
        /\ now > 0

(* C8: on every record, one update {status: s, duration: d} with s        *)
(* terminal gives the same status, duration and cost fields, and a         *)
(* non-null end timestamp, as {status: s} and {duration: d} applied        *)
(* separately in either order.                                             *)
\* what the claim compares: status, duration, cost fields, end time set
Outcome(r) == <<r.status, DurationAndCosts(r), r.ended_at # NULL>>

CombinedEqualsSeparate ==
    \A i \in Ids, s \in {"completed", "failed", "no_answer"},
       d \in DurationInputs, t \in now..MaxTime :
        LET S == MkData({"status"}, s, "", 0)
            D == MkData({"duration"}, "", "", d)
            SD == MkData({"status", "duration"}, s, "", d)
            both == Outcome(UpdateRow(calls[i], SD, now))
        IN  /\ both = Outcome(UpdateRow(UpdateRow(calls[i], S, now), D, t))
            /\ both = Outcome(UpdateRow(UpdateRow(calls[i], D, now), S, t))
            /\ both[1] = s
            /\ both[2][1] = d
            /\ both[3]

\* a record whose only update was the combined one
CombinedEqualsSeparateWitness ==
    \E i \in Ids :
        /\ i \in terminated
        /\ reports[i] = 1
        /\ calls[i].status \in {"completed", "failed", "no_answer"}
        /\ calls[i].duration # 0
        /\ nupdates = 1

(* ===================== properties of the cost calculator =============== *)
(* C9, as claimed: for duration 0 the three per-minute costs are 0 and     *)
(* total_cost_usd equals the returned cost_llm.                            *)
ZeroDurationTotalIsLLM ==
    \A i \in Ids :
        (reports[i] > 0 /\ calls[i].duration = 0) =>
            /\ calls[i].cost_livekit = 0
            /\ calls[i].cost_stt = 0
            /\ calls[i].cost_tts = 0
            /\ calls[i].total_cost_usd * 100 = calls[i].cost_llm

(* C9, amended: for duration 0 the three per-minute costs are 0, cost_llm  *)
(* is avg_tokens_per_call * (groq_input + groq_output) and total_cost_usd  *)
(* is that cost_llm rounded to 4 decimals.                                 *)
ZeroDurationTotalIsRoundedLLM ==
    \A i \in Ids :
        (reports[i] > 0 /\ calls[i].duration = 0) =>
            /\ calls[i].cost_livekit = 0
            /\ calls[i].cost_stt = 0
            /\ calls[i].cost_tts = 0
            /\ calls[i].cost_llm * 100 =
                  PRICING_avg_tokens_per_call
                      * (PRICING_groq_input + PRICING_groq_output)
            /\ calls[i].total_cost_usd = RoundDiv(calls[i].cost_llm, 100)

ZeroDurationReported ==
    \E i \in Ids : reports[i] > 0 /\ calls[i].duration = 0 /\ calls[i].cost_llm > 0

(* C10, as claimed: for d >= 0, total_cost_usd equals the sum of the       *)
(* returned cost_livekit + cost_stt + cost_tts + cost_llm.                 *)
ComponentSum(r) == r.cost_livekit + r.cost_stt + r.cost_tts + r.cost_llm

TotalIsComponentSum ==
    \A i \in Ids :
        (reports[i] > 0 /\ calls[i].duration >= 0) =>
            calls[i].total_cost_usd * 100 = ComponentSum(calls[i])

(* C10, amended: for d >= 0, total_cost_usd equals the sum of the returned *)
(* components rounded to 4 decimals, so the two differ by at most 0.00005. *)
TotalIsRoundedComponentSum ==
    \A i \in Ids :
        (reports[i] > 0 /\ calls[i].duration >= 0) =>
            /\ calls[i].total_cost_usd = RoundDiv(ComponentSum(calls[i]), 100)
            /\ calls[i].total_cost_usd * 100 - ComponentSum(calls[i]) \in -50..50

\* a reported duration whose component sum is not a multiple of 0.0001
TotalRoundedUp ==
    \E i \in Ids :
        /\ reports[i] > 0
        /\ calls[i].duration = 120
        /\ calls[i].total_cost_usd * 100 > ComponentSum(calls[i])

(* C11, as claimed: for d >= 0, total_cost_inr equals the returned         *)
(* total_cost_usd multiplied by USD_TO_INR, rounded to 2 decimals.         *)
InrIsReturnedUsdTimesRate ==
    \A i \in Ids :
        (reports[i] > 0 /\ calls[i].duration >= 0) =>
            calls[i].total_cost_inr =
                RoundDiv(calls[i].total_cost_usd * USD_TO_INR, 100)

\* the dollar total before its rounding, in micro-USD over 60
UnroundedTotalUsd(d) ==
    (PRICING_livekit_sip + PRICING_deepgram_stt + PRICING_deepgram_tts) * d
        + ((PRICING_avg_tokens_per_call
              * (PRICING_groq_input + PRICING_groq_output)) \div 100) * 60

(* C11, amended: for d >= 0, total_cost_inr equals the dollar total before *)
(* its rounding to 4 decimals, multiplied by USD_TO_INR and rounded to 2   *)
(* decimals; it is within 0.01 INR of the returned total_cost_usd times    *)
(* USD_TO_INR.                                                             *)
InrIsUnroundedUsdTimesRate ==
    \A i \in Ids :
        (reports[i] > 0 /\ calls[i].duration >= 0) =>
            /\ calls[i].total_cost_inr =
                  RoundDiv(UnroundedTotalUsd(calls[i].duration) * USD_TO_INR,
                           600000)
            /\ calls[i].total_cost_inr * 100
                  - calls[i].total_cost_usd * USD_TO_INR \in -99..99

\* 40 seconds: 0.03136 USD is 2.60 INR, the returned 0.0314 USD would be 2.61
InrDiffersFromReturnedUsd ==
    \E i \in Ids :
        /\ reports[i] > 0
        /\ calls[i].duration = 40
        /\ calls[i].total_cost_inr = 260
        /\ RoundDiv(calls[i].total_cost_usd * USD_TO_INR, 100) = 261

(* C12: for d >= 0, cost_llm is the constant avg_tokens_per_call *         *)
(* (groq_input + groq_output), whatever the duration.                      *)
LLMCostIsConstant ==
    \A i \in Ids :
        (reports[i] > 0 /\ calls[i].duration >= 0) =>
            calls[i].cost_llm * 100 =
                PRICING_avg_tokens_per_call
                    * (PRICING_groq_input + PRICING_groq_output)

\* a long call carries the same LLM estimate as a call of no duration
LLMCostOfLongCall ==
    \E i \in Ids :
        /\ reports[i] > 0
        /\ calls[i].duration >= 300
        /\ calls[i].cost_llm = calculate_call_cost(0).cost_llm

(* C13: for d >= 0, cost_livekit, cost_stt and cost_tts of                 *)
(* calculate_call_cost(2 * d) are twice those of calculate_call_cost(d),   *)
(* up to one unit of the 6-decimal rounding.                               *)
DoubleDurationDoublesCosts ==
    \A i \in Ids :
        (/\ reports[i] > 0
         /\ calls[i].duration >= 0
         /\ 2 * calls[i].duration \in CalcDurations) =>
            LET twice == calculate_call_cost(2 * calls[i].duration)
            IN  /\ twice.cost_livekit - 2 * calls[i].cost_livekit \in -1..1
                /\ twice.cost_stt - 2 * calls[i].cost_stt \in -1..1
                /\ twice.cost_tts - 2 * calls[i].cost_tts \in -1..1

\* 70 seconds: 0.011667 doubles to 0.023334, 140 seconds cost 0.023333
DoubleDurationOffByOne ==
    \E i \in Ids :
        /\ reports[i] > 0
        /\ calls[i].duration = 70
        /\ calls[i].cost_livekit = 11667
        /\ calculate_call_cost(140).cost_livekit = 23333

(* C14: with the configured price table and the rate 83.0,                 *)
(* calculate_call_cost(120) returns cost_livekit 0.02, cost_stt 0.0118,    *)
(* cost_tts 0.054, cost_llm 0.00276, total_cost_usd 0.0886 and             *)
(* total_cost_inr 7.35.                                                    *)
TwoMinuteExample ==
    \A i \in Ids :
        (reports[i] > 0 /\ calls[i].duration = 120) =>
            CostFields(calls[i]) = <<20000, 11800, 54000, 2760, 886, 735>>

TwoMinuteExampleReported ==
    \E i \in Ids :
        /\ reports[i] > 0
        /\ calls[i].duration = 120
        /\ calls[i].total_cost_inr = 735

(* ==================== properties of the aggregation ==================== *)
\* the records created from `days` days before the current day up to it
DayWindow(days) ==
    {i \in Ids :
        /\ DATE(now) - days <= DATE(calls[i].created_at)
        /\ DATE(calls[i].created_at) <= DATE(now)}

\* the arithmetic sum of a column over a set of records
RECURSIVE ColumnSum(_, _)
ColumnSum(col, ids) ==
    IF ids = {} THEN 0
    ELSE LET i == CHOOSE x \in ids : TRUE
         IN  calls[i][col] + ColumnSum(col, ids \ {i})

ZeroWindow == [usd |-> 0, inr |-> 0, calls |-> 0]

(* C15: get_costs and get_analytics succeed on every store; when the store *)
(* holds no record they report zero for every cost sum, every window's     *)
(* cost and call count, the total minutes and the cost per minute, and a   *)
(* window in which no record falls reports zero cost and zero calls.       *)
EmptyAggregatesAreZero ==
    LET c == get_costs(calls, now)
        a == get_analytics(calls, now)
    IN  /\ c.success
        /\ a.success
        /\ Len(calls) = 0 =>
              /\ c.breakdown = [livekit_sip |-> 0, deepgram_stt |-> 0,
                                deepgram_tts |-> 0, groq_llm |-> 0]
              /\ c.totals = [usd |-> 0, inr |-> 0, minutes |-> 0,
                             cost_per_minute_usd |-> 0,
                             cost_per_minute_inr |-> 0]
              /\ c.today = ZeroWindow
              /\ c.week = ZeroWindow
              /\ c.month = ZeroWindow
              /\ a.total_calls = 0
              /\ a.total_cost_usd = 0
              /\ a.total_cost_inr = 0
        /\ DayWindow(0) = {} =>
              /\ c.today = ZeroWindow
              /\ <<a.today_calls, a.today_cost_usd, a.today_cost_inr>> = <<0, 0, 0>>
        /\ DayWindow(7) = {} =>
              /\ c.week = ZeroWindow
              /\ <<a.week_calls, a.week_cost_usd, a.week_cost_inr>> = <<0, 0, 0>>
        /\ DayWindow(30) = {} =>
              /\ c.month = ZeroWindow
              /\ <<a.month_calls, a.month_cost_usd, a.month_cost_inr>> = <<0, 0, 0>>

\* costs are stored, but on no record of the last 7 days
NoRecordInTheWeek ==
    /\ DayWindow(7) = {}
    /\ \E i \in Ids : calls[i].total_cost_usd > 0
    /\ get_costs(calls, now).week = ZeroWindow
    /\ get_costs(calls, now).totals.usd > 0

(* C16, as claimed: get_costs reports a cost per minute of 0 whenever the  *)
(* summed duration of all records is 0, and total_usd / total_minutes      *)
(* otherwise.                                                              *)
CostPerMinuteIsQuotient ==
    LET c == get_costs(calls, now)
        total_duration == ColumnSum("duration", Ids)
        total_usd == ColumnSum("total_cost_usd", Ids)
        sign == IF total_duration < 0 THEN -1 ELSE 1
    IN  IF total_duration = 0
        THEN c.totals.cost_per_minute_usd = 0
        ELSE c.totals.cost_per_minute_usd =
                RoundDiv(sign * total_usd * 60, sign * total_duration)

(* C17: the cost get_costs and get_analytics report for a window (today,   *)
(* the last 7 days, the last 30 days, all time) is exactly the arithmetic  *)
(* sum of the stored total_cost_usd, and of the stored total_cost_inr, of  *)
(* the records in that window.                                             *)
WindowTotalsAreExactSums ==
    LET c == get_costs(calls, now)
        a == get_analytics(calls, now)
        usd(ids) == ColumnSum("total_cost_usd", ids)
        inr(ids) == ColumnSum("total_cost_inr", ids)
    IN  /\ <<c.today.usd, c.today.inr>> = <<usd(DayWindow(0)), inr(DayWindow(0))>>
        /\ <<c.week.usd, c.week.inr>> = <<usd(DayWindow(7)), inr(DayWindow(7))>>
        /\ <<c.month.usd, c.month.inr>> = <<usd(DayWindow(30)), inr(DayWindow(30))>>
        /\ <<c.totals.usd, c.totals.inr>> = <<usd(Ids), inr(Ids)>>
        /\ <<a.today_cost_usd, a.today_cost_inr>> = <<c.today.usd, c.today.inr>>
        /\ <<a.week_cost_usd, a.week_cost_inr>> = <<c.week.usd, c.week.inr>>
        /\ <<a.month_cost_usd, a.month_cost_inr>> = <<c.month.usd, c.month.inr>>
        /\ <<a.total_cost_usd, a.total_cost_inr>> = <<c.totals.usd, c.totals.inr>>

\* two costed records of the last 30 days, one of them of today
TwoRecordsInTheMonth ==
    \E i \in Ids, j \in Ids :
        /\ i \in DayWindow(0)
        /\ j \in DayWindow(30) \ DayWindow(7)
        /\ calls[i].total_cost_usd > 0
        /\ calls[j].total_cost_usd > 0
        /\ get_costs(calls, now).month.usd =
              calls[i].total_cost_usd + calls[j].total_cost_usd
        /\ get_costs(calls, now).today.usd = calls[i].total_cost_usd

(* C18: get_calls, get_costs and get_analytics are read-only: a step of    *)
(* one of them leaves every call record and the set of records unchanged.  *)
ReadersChangeNothing ==
    [][(GetCalls \/ GetCosts \/ GetAnalytics) => calls' = calls]_vars

\* a store with a reported record for the readers to read
ReadersHaveRecords ==
    /\ Len(calls) > 1
    /\ \E i \in Ids : reports[i] > 0 /\ calls[i].total_cost_usd # 0
    /\ get_analytics(calls, now).total_calls = Len(calls)

(* C19: window membership follows calendar days of the creation            *)
(* timestamp: 'today' counts exactly the records created on the current    *)
(* day, the last-7-days (30-days) window exactly the records whose         *)
(* creation day lies between the day 7 (30) days before the current day    *)
(* and the current day, both included.                                     *)
WindowsFollowCalendarDays ==
    LET c == get_costs(calls, now)
        a == get_analytics(calls, now)
        created_on == {i \in Ids : DATE(calls[i].created_at) = DATE(now)}
    IN  /\ c.today.calls = Cardinality(created_on)
        /\ c.week.calls = Cardinality(DayWindow(7))
        /\ c.month.calls = Cardinality(DayWindow(30))
        /\ a.today_calls = Cardinality(created_on)
        /\ a.week_calls = Cardinality(DayWindow(7))
        /\ a.month_calls = Cardinality(DayWindow(30))

\* a reported record of the first half of the day 7 days back is counted, a
\* reported record of the day before is not
WeekBoundaryDay ==
    \E i \in Ids, j \in Ids :
        /\ DATE(calls[j].created_at) = DATE(now) - 7
        /\ calls[j].created_at % 2 = 0
        /\ DATE(calls[i].created_at) = DATE(now) - 8
        /\ reports[i] > 0
        /\ reports[j] > 0
        /\ get_analytics(calls, now).week_calls = 1
        /\ get_analytics(calls, now).month_calls = 2

(* ========================= the set of call records ===================== *)
(* C20: the set of call records changes only when a call is dispatched:    *)
(* make_call adds exactly one record, of duration 0, null end timestamp    *)
(* and all cost fields 0, after the agent dispatch succeeded; it adds none *)
(* when the phone validation fails, the credentials are missing or the     *)
(* dispatch raises; and no step removes a call record.                     *)
RecordsChangeOnlyByDispatch ==
    [][/\ Len(calls') >= Len(calls)
       /\ \A i \in Ids : calls'[i].created_at = calls[i].created_at
       /\ Len(calls') # Len(calls) =>
             /\ Len(calls') = Len(calls) + 1
             /\ calls'[Len(calls')].duration = 0
             /\ calls'[Len(calls')].ended_at = NULL
             /\ CostFields(calls'[Len(calls')]) = <<0, 0, 0, 0, 0, 0>>
             /\ SubSeq(calls', 1, Len(calls)) = calls
             /\ \E p \in PhoneInputs : PhoneValid(p) /\ MakeCall(p, TRUE, TRUE)
       /\ \A p \in PhoneInputs, c \in BOOLEAN, d \in BOOLEAN :
             MakeCall(p, c, d) =>
                IF PhoneValid(p) /\ c /\ d
                THEN Len(calls') = Len(calls) + 1
                ELSE calls' = calls]_vars

\* a dispatched call that update requests have been served on
RecordDispatched ==
    /\ Len(calls) = MaxCalls
    /\ calls[Len(calls)].created_at = now
    /\ nupdates > 0

(* ============================ the price table ========================== *)
\* the categories of the breakdown a table leaves unpriced
Unpriced(pricing, key) == key \notin DOMAIN pricing \/ pricing[key] = 0

ReapplyingDurationIsIdempotent ==
    \A i \in Ids, d \in DurationInputs :
        LET data == MkData({"duration"}, "", "", d)
            once == UpdateRow(calls[i], data, now)
            twice == UpdateRow(once, data, now)
        IN  /\ DurationAndCosts(twice) = DurationAndCosts(once)
            /\ (reports[i] > 0 /\ calls[i].duration = d) =>
                  DurationAndCosts(once) = DurationAndCosts(calls[i])

\* a record a duration was reported on twice, holding the costs of one report
DurationReappliedWitness ==
    \E i \in Ids :
        /\ reports[i] = 2
        /\ calls[i].duration = 70
        /\ calls[i].total_cost_usd = calculate_call_cost(70).total_cost_usd

(* C23: update_call writes only what the request carries: without a        *)
(* duration field the duration and the six cost fields are unchanged,      *)
(* without a status the status and the end timestamp are unchanged, with   *)
(* none of status/notes/duration nothing changes, and no record other than *)
(* the one addressed by call_id ever changes.                              *)
WritesMoreThanCarried(call_id, data) ==
    \/ \E j \in Ids : j # call_id /\ calls'[j] # calls[j]
    \/ Len(calls') # Len(calls)
    \/ /\ call_id \in Ids
       /\ \/ /\ "duration" \notin data.has
             /\ DurationAndCosts(calls'[call_id]) # DurationAndCosts(calls[call_id])
          \/ /\ "status" \notin data.has
             /\ <<calls'[call_id].status, calls'[call_id].ended_at>>
                   # <<calls[call_id].status, calls[call_id].ended_at>>
          \/ /\ "notes" \notin data.has
             /\ calls'[call_id].notes # calls[call_id].notes
          \/ /\ data.has = {}
             /\ calls'[call_id] # calls[call_id]

UpdateWritesOnlyWhatIsCarried ==
    [][\A id \in 1..(Len(calls) + 1), data \in UpdateData :
          WritesMoreThanCarried(id, data) => ~UpdateCall(id, data)]_vars

\* notes were written on the first record: its other columns and the second
\* record are as dispatched
OnlyNotesWritten ==
    /\ Len(calls) = 2
    /\ nupdates > 0
    /\ calls[1] = [InsertRow(0) EXCEPT !.notes = "n"]
    /\ calls[2] = InsertRow(0)

(* C24: update_call addressed to a call_id that does not exist reports     *)
(* success, creates no record and leaves every call record unchanged.      *)
UpdateOfMissingCallIsNoOp ==
    [][\A data \in UpdateData :
          /\ update_call_response(Len(calls) + 1, data).success
          /\ calls' # calls => ~UpdateCall(Len(calls) + 1, data)]_vars

\* every update request was served and the two records are as dispatched
UpdatesServedNothingWritten ==
    /\ nupdates = MaxUpdates
    /\ calls = <<InsertRow(0), InsertRow(0)>>
    /\ reports = <<0, 0>>

(* ========================= the calculator, again ======================= *)
(* C26: the call cost is monotone in the duration: for 0 <= d1 <= d2 each  *)
(* of cost_livekit, cost_stt, cost_tts, total_cost_usd and total_cost_inr  *)
(* of calculate_call_cost(d1) is <= that of calculate_call_cost(d2), and   *)
(* every returned value is >= 0.                                           *)
CostIsMonotone ==
    \A i \in Ids :
        (reports[i] > 0 /\ calls[i].duration >= 0) =>
            /\ \A k \in 1..6 : CostFields(calls[i])[k] >= 0
            /\ calculate_call_cost(calls[i].duration).duration_minutes >= 0
            /\ \A d2 \in CalcDurations :
                  calls[i].duration <= d2 =>
                     LET c2 == calculate_call_cost(d2)
                     IN  /\ calls[i].cost_livekit <= c2.cost_livekit
                         /\ calls[i].cost_stt <= c2.cost_stt
                         /\ calls[i].cost_tts <= c2.cost_tts
                         /\ calls[i].total_cost_usd <= c2.total_cost_usd
                         /\ calls[i].total_cost_inr <= c2.total_cost_inr

\* ten seconds more cost strictly more in every per-minute component
LongerCallCostsMore ==
    \E i \in Ids :
        /\ reports[i] > 0
        /\ calls[i].duration = 300
        /\ calls[i].cost_livekit < calculate_call_cost(310).cost_livekit
        /\ calls[i].total_cost_inr < calculate_call_cost(310).total_cost_inr

(* ============================== transcripts ============================ *)
(* C25, as claimed: in every reachable state every stored transcript       *)
(* message references an existing call record.                             *)
TranscriptsReferenceCalls ==
    \A k \in 1..Len(transcripts) : transcripts[k].call_id \in Ids

(* ========================= aggregation, interleaved ==================== *)
(* C27, as claimed: the windows are nested: the call count and the cost    *)
(* reported for today are <= those for the last 7 days, which are <= those *)
(* for the last 30 days, which are <= the all-time count and cost.         *)
WindowsAreNested ==
    /\ LET a == get_analytics(calls, now)
       IN  /\ a.today_calls <= a.week_calls
           /\ a.week_calls <= a.month_calls
           /\ a.month_calls <= a.total_calls
           /\ a.today_cost_usd <= a.week_cost_usd
           /\ a.week_cost_usd <= a.month_cost_usd
           /\ a.month_cost_usd <= a.total_cost_usd
           /\ a.today_cost_inr <= a.week_cost_inr
           /\ a.week_cost_inr <= a.month_cost_inr
           /\ a.month_cost_inr <= a.total_cost_inr
    /\ Len(inflight) = 4 =>
          LET c == costs_response(inflight)
          IN  /\ c.today.calls <= c.week.calls
              /\ c.week.calls <= c.month.calls
              /\ c.today.usd <= c.week.usd
              /\ c.week.usd <= c.month.usd
              /\ c.month.usd <= c.totals.usd
              /\ c.today.inr <= c.week.inr
              /\ c.week.inr <= c.month.inr
              /\ c.month.inr <= c.totals.inr

=============================================================================
